---- MODULE Spec2Model ----
(***************************************************************************)
(* Model of the aws-crypto-pipeline ETL job: the on-demand Lambda handler  *)
(* (lambda/src/lambda_etl.py), the range backfill (scripts/                *)
(* lambda_backfill.py) and the interactive single-date script (scripts/    *)
(* manual_backfill.py), with the secret store, the upstream price API, the *)
(* wall clock and the partitioned object store as their environment.       *)
(***************************************************************************)
EXTENDS Integers, Sequences, FiniteSets, TLC

\* ---------------------------------------------------------------- bounds
\* Number of times the Lambda runtime invokes lambda_handler.
MaxInvocations == 2
\* Number of midnights the wall clock may cross during a behaviour.
MaxTicks == 1
\* Largest value of the DAYS setting and longest range of days backfilled.
MaxDays == 2

\* ------------------------------------------------------ program constants
MAX_RETRIES == 6
RETRY_BACKOFF_BASE == 5
DELAY_BETWEEN_REQUESTS == 3

\* ------------------------------------------------------- optional values
\* Python None, a missing dict key or a missing DataFrame column.
None == <<>>
Some(x) == <<x>>

\* -------------------------------------------------------------- calendar
\* Dates are <<year, month, day>>, as datetime.date keeps them.
IsLeap(y) == (y % 4 = 0) /\ ((y % 100 # 0) \/ (y % 400 = 0))

DaysInMonth(y, m) ==
    IF m = 2 THEN (IF IsLeap(y) THEN 29 ELSE 28)
    ELSE IF m \in {4, 6, 9, 11} THEN 30 ELSE 31

ValidDate(t) ==
    /\ t[1] \in 1..9999
    /\ t[2] \in 1..12
    /\ t[3] \in 1..DaysInMonth(t[1], t[2])

\* date + timedelta(days=1)
NextDay(t) ==
    IF t[3] < DaysInMonth(t[1], t[2]) THEN <<t[1], t[2], t[3] + 1>>
    ELSE IF t[2] < 12 THEN <<t[1], t[2] + 1, 1>>
    ELSE <<t[1] + 1, 1, 1>>

\* date - timedelta(days=1)
PrevDay(t) ==
    IF t[3] > 1 THEN <<t[1], t[2], t[3] - 1>>
    ELSE IF t[2] > 1 THEN <<t[1], t[2] - 1, DaysInMonth(t[1], t[2] - 1)>>
    ELSE <<t[1] - 1, 12, 31>>

RECURSIVE AddDays(_, _)
\* date + timedelta(days=n), n of either sign
AddDays(t, n) ==
    IF n = 0 THEN t
    ELSE IF n > 0 THEN AddDays(NextDay(t), n - 1)
    ELSE AddDays(PrevDay(t), n + 1)

\* a <= b on dates
DateLE(a, b) ==
    \/ a[1] < b[1]
    \/ a[1] = b[1] /\ a[2] < b[2]
    \/ a[1] = b[1] /\ a[2] = b[2] /\ a[3] <= b[3]

\* ------------------------------------------------------- date strings
\* A string is a sequence of one-character strings.
Digits == <<"0", "1", "2", "3", "4", "5", "6", "7", "8", "9">>
IsDigit(c) == \E i \in 1..10 : Digits[i] = c
DigitVal(c) == (CHOOSE i \in 1..10 : Digits[i] = c) - 1
DigitChar(n) == Digits[n + 1]

TwoDigits(n) == <<DigitChar((n \div 10) % 10), DigitChar(n % 10)>>
FourDigits(n) ==
    <<DigitChar((n \div 1000) % 10), DigitChar((n \div 100) % 10),
      DigitChar((n \div 10) % 10), DigitChar(n % 10)>>

\* date.strftime("%Y-%m-%d")
StrfTime(t) == FourDigits(t[1]) \o <<"-">> \o TwoDigits(t[2]) \o <<"-">> \o TwoDigits(t[3])

\* int(s[a-1:b]) for a slice of digits
RECURSIVE IntOf(_)
IntOf(s) ==
    IF s = <<>> THEN 0
    ELSE 10 * IntOf(SubSeq(s, 1, Len(s) - 1)) + DigitVal(s[Len(s)])

AllDigits(s) == \A i \in 1..Len(s) : IsDigit(s[i])

\* The shape the format "%Y-%m-%d" accepts, for the zero-padded strings and
\* the malformed strings of the model.
WellFormed(s) ==
    /\ Len(s) = 10
    /\ s[5] = "-" /\ s[8] = "-"
    /\ AllDigits(SubSeq(s, 1, 4))
    /\ AllDigits(SubSeq(s, 6, 7))
    /\ AllDigits(SubSeq(s, 9, 10))

Fields(s) == <<IntOf(SubSeq(s, 1, 4)), IntOf(SubSeq(s, 6, 7)), IntOf(SubSeq(s, 9, 10))>>

\* datetime.strptime(s, "%Y-%m-%d"): None stands for the ValueError raised.
StrpTime(s) ==
    IF WellFormed(s) /\ ValidDate(Fields(s)) THEN Some(Fields(s)) ELSE None

\* ------------------------------------------------------------------ state
VARIABLES
    orch,          \* the entry point that runs: "handler", "backfill", "manual"
    pc,            \* its position
    now,           \* the wall clock's UTC date
    ticks,         \* midnights crossed so far
    env,           \* environment: [S3: are S3_BUCKET and S3_PREFIX set,
                   \*               secret_name: is COINGECKO_API_KEY_SECRET_NAME set]
    event,         \* lambda_handler's event: [date, historical_data]
    invocations,   \* lambda_handler invocations so far
    prev,          \* [date, status] of the previous lambda_handler invocation
    api_key,       \* None or Some("key")
    secretCalls,   \* get_secret_value calls of this run
    secretOutcome, \* "none", or "ok" / "failed": how the secret lookup went
    fetched,       \* what the markets endpoint answered this invocation:
                   \* "none" yet, "error", "empty" (an empty array) or "record"
    df,            \* lambda_handler's DataFrame: a sequence of rows
    status,        \* lambda_handler's statusCode, 0 until it returns
    writerCalls,   \* wr.s3.to_parquet calls of this run
    store,         \* the object store: partition <<y, m, d>> -> rows
    handed,        \* the rows this run handed to the writer: [orch, mode, logical, row]
    raised,        \* "none" or the exception that ended a script
    START_DATE, END_DATE, DAYS,    \* backfill settings
    start_date, end_date, curr,    \* main's range and cursor
    succeeded, failed,             \* main's counters
    processed,                     \* the days main has finished, in order
    attempt,                       \* fetch_historical_day's attempt
    requests,                      \* requests.get calls for the current day
    n429, nHard,                   \* 429 and other failed responses, current day
    sleeps,                        \* time.sleep arguments, current day, in order
    payload,                       \* fetch_historical_day's return value
    writeRaised                    \* did the current day's write raise

hvars == <<event, invocations, prev, fetched, df, status>>
svars == <<api_key, secretCalls, secretOutcome>>
cfgvars == <<START_DATE, END_DATE, DAYS>>
loopvars == <<start_date, end_date, curr, succeeded, failed, processed, writeRaised>>
fetchvars == <<attempt, requests, n429, nHard, sleeps, payload>>
wvars == <<writerCalls, store, handed>>
clockvars == <<now, ticks>>
vars == <<orch, pc, env, raised, hvars, svars, cfgvars, loopvars, fetchvars, wvars, clockvars>>

\* ------------------------------------------------------------- wall clock
\* A reading of the clock at date t after k midnights: the same day, or the
\* next one when a midnight has passed since the last reading.
ClockReads(t, k) ==
    {<<t, k>>} \cup (IF k < MaxTicks THEN {<<NextDay(t), k + 1>>} ELSE {})

\* ------------------------------------------------------------ secret store
SecretOutcomes == {"ok", "lookup_error", "no_secret_string", "missing_field", "malformed_json"}

LookupResult(o) == IF o = "ok" THEN "ok" ELSE "failed"

\* lambda_etl.py: every exception of the lookup is caught, the key stays None.
HandlerSecretKey(o) == IF o = "ok" THEN Some("key") ELSE None

\* lambda_backfill.py get_api_key_from_secrets: resp.get and payload.get give
\* None for a missing field, every exception is caught and None returned.
GetApiKeyFromSecrets(o) == IF o = "ok" THEN Some("key") ELSE None

\* manual_backfill.py lines 22-24: no handler around the lookup. The result is
\* [key, raised].
ManualSecretKey(o) ==
    IF o = "ok" THEN [key |-> Some("key"), raised |-> "none"]
    ELSE [key |-> None, raised |-> "secret"]

\* --------------------------------------------------------------- writer
Range(s) == {s[i] : i \in 1..Len(s)}
PartitionOf(r) == <<r.year, r.month, r.day>>
PartsOf(rows) == {PartitionOf(r) : r \in Range(rows)}
RowsOf(rows, p) == SelectSeq(rows, LAMBDA r : PartitionOf(r) = p)

\* wr.s3.to_parquet(df, dataset=True, partition_cols=[year, month, day], mode)
ToParquet(st, rows, mode) ==
    [p \in DOMAIN st \cup PartsOf(rows) |->
        IF p \in PartsOf(rows)
        THEN (IF mode = "append" /\ p \in DOMAIN st THEN st[p] ELSE <<>>) \o RowsOf(rows, p)
        ELSE st[p]]

HandlerWriteModeAppend == "append"
\* lambda_etl.py line 128
HandlerWriteMode == "overwrite_partitions"

\* lambda_backfill.py line 142
BackfillWriteMode == "overwrite_partitions"

\* -------------------------------------------------------- upstream: markets
\* GET /coins/markets with per_page=1: an error, or an array of at most one
\* record, whose current_price may be null.
MarketsResponses ==
    {[kind |-> "http_error", data |-> <<>>], [kind |-> "network_error", data |-> <<>>]}
    \cup {[kind |-> "ok", data |-> d] :
            d \in {<<>>, <<[current_price |-> None]>>, <<[current_price |-> Some(100)]>>}}

\* pd.DataFrame(data): one row per record, with the record's columns. The
\* frame has no price_usd and no date column.
MarketsFrame(data) ==
    [i \in 1..Len(data) |->
        [price_usd |-> None, current_price |-> data[i].current_price, date |-> None,
         year |-> None, month |-> None, day |-> None, processing_timestamp |-> None]]

DfEmptyUnchecked(frame) == FALSE
\* lambda_etl.py lines 52-54 and 95: `not data` gives an empty frame, df.empty
DfEmpty(frame) == Len(frame) = 0

HandlerPartitionFromTimestamp(frame, run_date, pts) ==
    [i \in 1..Len(frame) |->
        [frame[i] EXCEPT !.processing_timestamp = Some(pts),
                         !.year = pts[1], !.month = pts[2], !.day = pts[3]]]
\* lambda_etl.py lines 100, 112-114
HandlerPartition(frame, run_date, pts) ==
    [i \in 1..Len(frame) |->
        [frame[i] EXCEPT !.processing_timestamp = Some(pts),
                         !.year = run_date[1], !.month = run_date[2], !.day = run_date[3]]]

\* ------------------------------------------------------------ handler inputs
EventDates ==
    {None, Some(StrfTime(<<2024, 2, 29>>)), Some(StrfTime(<<2023, 2, 29>>)),
     Some(<<"b", "a", "d">>)}
HistoricalInputs == {None, Some([price_usd |-> None]), Some([price_usd |-> Some(100)])}
Events == [date : EventDates, historical_data : HistoricalInputs]
NoEvent == [date |-> None, historical_data |-> None]
NoPrev == [date |-> None, status |-> 0]
NoPayload == [date |-> None, price_usd |-> None, volume_usd |-> None,
              market_cap_usd |-> None, last_updated |-> None]

\* ---------------------------------------------------------- lambda_handler
\* The runtime calls lambda_handler(event, context) again.
HandlerInvoke ==
    /\ orch = "handler" /\ pc = "done"
    /\ invocations < MaxInvocations
    /\ \E e \in Events : event' = e
    /\ invocations' = invocations + 1
    /\ prev' = [date |-> event.date, status |-> status]
    /\ pc' = "h_key"
    /\ status' = 0 /\ df' = <<>> /\ fetched' = "none"
    /\ api_key' = None /\ secretCalls' = 0 /\ secretOutcome' = "none"
    /\ writerCalls' = 0 /\ handed' = {}
    /\ UNCHANGED <<orch, env, raised, cfgvars, loopvars, fetchvars, store, clockvars>>

\* lines 70-90: environment, then the optional secret lookup
HandlerResolveKey ==
    /\ orch = "handler" /\ pc = "h_key"
    /\ IF ~env.S3
       THEN /\ status' = 500 /\ pc' = "done"
            /\ UNCHANGED svars
       ELSE /\ status' = status /\ pc' = "h_fetch"
            /\ IF env.secret_name
               THEN \E o \in SecretOutcomes :
                        /\ secretCalls' = secretCalls + 1
                        /\ secretOutcome' = LookupResult(o)
                        /\ api_key' = HandlerSecretKey(o)
               ELSE UNCHANGED svars
    /\ UNCHANGED <<orch, env, raised, event, invocations, prev, fetched, df, cfgvars,
                   loopvars, fetchvars, wvars, clockvars>>

\* lines 93-97 with fetch_single_coin_market_data (lines 47-61)
HandlerFetch ==
    /\ orch = "handler" /\ pc = "h_fetch"
    /\ \E r \in MarketsResponses :
        /\ fetched' = IF r.kind # "ok" THEN "error"
                      ELSE IF r.data = <<>> THEN "empty" ELSE "record"
        /\ IF r.kind # "ok"
           THEN status' = 500 /\ pc' = "done" /\ df' = df
           ELSE IF DfEmpty(MarketsFrame(r.data))
           THEN status' = 204 /\ pc' = "done" /\ df' = MarketsFrame(r.data)
           ELSE status' = status /\ pc' = "h_build" /\ df' = MarketsFrame(r.data)
    /\ UNCHANGED <<orch, env, raised, event, invocations, prev, svars, cfgvars, loopvars,
                   fetchvars, wvars, clockvars>>

\* lines 99-114: processing timestamp, run date, partition columns
HandlerBuild ==
    /\ orch = "handler" /\ pc = "h_build"
    /\ \E c1 \in ClockReads(now, ticks) :
        IF event.date # None
        THEN /\ now' = c1[1] /\ ticks' = c1[2]
             /\ IF StrpTime(event.date[1]) = None
                THEN status' = 500 /\ pc' = "done" /\ df' = df
                ELSE /\ df' = HandlerPartition(df, StrpTime(event.date[1])[1], c1[1])
                     /\ status' = status /\ pc' = "h_write"
        ELSE \E c2 \in ClockReads(c1[1], c1[2]) :
                /\ now' = c2[1] /\ ticks' = c2[2]
                /\ df' = HandlerPartition(df, c2[1], c1[1])
                /\ status' = status /\ pc' = "h_write"
    /\ UNCHANGED <<orch, env, raised, event, invocations, prev, fetched, svars, cfgvars,
                   loopvars, fetchvars, wvars>>

\* The logical day of the handler's rows: the event's date when it carries
\* one, the current UTC date otherwise.
HandlerLogicalDate == IF event.date # None THEN Fields(event.date[1]) ELSE now

\* lines 116-136: the write and the report
HandlerWrite ==
    /\ orch = "handler" /\ pc = "h_write"
    /\ writerCalls' = writerCalls + 1
    /\ handed' = handed \cup
          {[orch |-> "handler", mode |-> HandlerWriteMode,
            logical |-> HandlerLogicalDate, row |-> r] : r \in Range(df)}
    /\ \E ok \in BOOLEAN :
        IF ok
        THEN store' = ToParquet(store, df, HandlerWriteMode) /\ status' = 200
        ELSE store' = store /\ status' = 500
    /\ pc' = "done"
    /\ UNCHANGED <<orch, env, raised, event, invocations, prev, fetched, df, svars, cfgvars,
                   loopvars, fetchvars, clockvars>>

\* -------------------------------------------------------- upstream: history
\* GET /coins/{id}/history. A body says whether market_data is there, how
\* current_price comes ("usd": an object with usd, "no_usd": an object
\* without it, "missing": no such key, "null": JSON null), whether the other
\* two fields carry usd, and whether last_updated is there.
HistoryBodies ==
    {[market_data |-> FALSE, current_price |-> "missing", others |-> FALSE, last_updated |-> FALSE],
     [market_data |-> TRUE, current_price |-> "usd", others |-> TRUE, last_updated |-> TRUE],
     [market_data |-> TRUE, current_price |-> "usd", others |-> TRUE, last_updated |-> FALSE],
     [market_data |-> TRUE, current_price |-> "no_usd", others |-> TRUE, last_updated |-> TRUE],
     [market_data |-> TRUE, current_price |-> "missing", others |-> FALSE, last_updated |-> TRUE],
     [market_data |-> TRUE, current_price |-> "null", others |-> TRUE, last_updated |-> TRUE]}

HistoryResponses ==
    {[kind |-> k, body |-> CHOOSE b \in HistoryBodies : ~b.market_data] :
        k \in {"429", "http_error", "network_error"}}
    \cup {[kind |-> "ok", body |-> b] : b \in HistoryBodies}

\* lines 83-87: market.get("current_price", {}).get("usd") raises on a null
\* current_price.
MappingRaises(b) == b.market_data /\ b.current_price = "null"

\* lines 83-96: the fields of a body that maps
MapHistory(b, date_obj) ==
    [date |-> Some(StrfTime(date_obj)),
     price_usd |-> IF b.market_data /\ b.current_price = "usd" THEN Some(100) ELSE None,
     volume_usd |-> IF b.market_data /\ b.others THEN Some(7) ELSE None,
     market_cap_usd |-> IF b.market_data /\ b.others THEN Some(9) ELSE None,
     last_updated |-> IF b.last_updated THEN Some("ts") ELSE None]

ExhaustedResultZeroPrice(date_obj) ==
    [date |-> Some(StrfTime(date_obj)), price_usd |-> Some(0), volume_usd |-> None,
     market_cap_usd |-> None, last_updated |-> None]
\* line 106
ExhaustedResult(date_obj) ==
    [date |-> Some(StrfTime(date_obj)), price_usd |-> None, volume_usd |-> None,
     market_cap_usd |-> None, last_updated |-> None]

BackoffWaitFlat(n) == RETRY_BACKOFF_BASE
\* lines 77, 98, 103
BackoffWait(n) == RETRY_BACKOFF_BASE * n

\* lines 108-127 (the columns the model keeps)
BuildDataframeFromPayload(p, run_date, pts) ==
    [price_usd |-> p.price_usd, current_price |-> None, date |-> Some(run_date),
     year |-> run_date[1], month |-> run_date[2], day |-> run_date[3],
     processing_timestamp |-> Some(pts)]

\* ------------------------------------------------------------- backfill
DateLT(a, b) == DateLE(a, b) /\ a # b
LoopTestExclusive(c, e) == DateLT(c, e)
\* line 170: while curr <= end_date
LoopTest(c, e) == DateLE(c, e)

\* line 162 with get_api_key_from_secrets (lines 46-58)
BackfillResolveKey ==
    /\ orch = "backfill" /\ pc = "b_key"
    /\ IF env.secret_name
       THEN \E o \in SecretOutcomes :
                /\ secretCalls' = secretCalls + 1
                /\ secretOutcome' = LookupResult(o)
                /\ api_key' = GetApiKeyFromSecrets(o)
       ELSE UNCHANGED svars
    /\ pc' = "b_range"
    /\ UNCHANGED <<orch, env, raised, hvars, cfgvars, loopvars, fetchvars, wvars, clockvars>>

\* lines 163-168 with parse_date_range (lines 146-159)
ParseDateRange ==
    /\ orch = "backfill" /\ pc = "b_range"
    /\ \E c \in ClockReads(now, ticks) :
        LET s == IF START_DATE = None THEN None ELSE StrpTime(START_DATE[1])
            e == IF END_DATE = None THEN None ELSE StrpTime(END_DATE[1])
            readsClock == END_DATE = None /\ (START_DATE = None \/ s # None)
            today == IF readsClock THEN c[1] ELSE now
            bad == (START_DATE # None /\ s = None) \/ (END_DATE # None /\ e = None)
            en == IF END_DATE # None THEN e[1] ELSE today
            st == IF START_DATE # None THEN s[1] ELSE AddDays(en, -(DAYS - 1))
        IN  /\ readsClock \/ c = <<now, ticks>>
            /\ now' = today
            /\ ticks' = IF readsClock THEN c[2] ELSE ticks
            /\ IF bad
               THEN /\ raised' = "ValueError" /\ pc' = "crashed"
                    /\ UNCHANGED <<start_date, end_date, curr>>
               ELSE /\ raised' = raised /\ pc' = "b_loop"
                    /\ start_date' = st /\ end_date' = en /\ curr' = st
    /\ UNCHANGED <<orch, env, hvars, svars, cfgvars, succeeded, failed, processed, writeRaised,
                   fetchvars, wvars>>

\* lines 170-172 and 65-70: the loop test, then the call of fetch_historical_day
LoopHead ==
    /\ orch = "backfill" /\ pc = "b_loop"
    /\ IF LoopTest(curr, end_date)
       THEN /\ pc' = "b_fetch"
            /\ attempt' = 0 /\ requests' = 0 /\ n429' = 0 /\ nHard' = 0
            /\ sleeps' = <<>> /\ payload' = NoPayload
       ELSE /\ pc' = "done"
            /\ UNCHANGED fetchvars
    /\ UNCHANGED <<orch, env, raised, hvars, svars, cfgvars, loopvars, wvars, clockvars>>

\* The retry loop with a rate-limited pass not counted as an attempt.
FetchAttemptFree429 ==
    /\ orch = "backfill" /\ pc = "b_fetch"
    /\ attempt < MAX_RETRIES
    /\ requests' = requests + 1
    /\ \E r \in HistoryResponses :
        IF r.kind = "429"
        THEN /\ attempt' = attempt
             /\ sleeps' = Append(sleeps, BackoffWait(attempt + 1))
             /\ n429' = n429 + 1
             /\ UNCHANGED <<nHard, payload, pc>>
        ELSE IF r.kind # "ok" \/ MappingRaises(r.body)
        THEN /\ attempt' = attempt + 1
             /\ sleeps' = Append(sleeps, BackoffWait(attempt'))
             /\ nHard' = nHard + 1
             /\ UNCHANGED <<n429, payload, pc>>
        ELSE /\ attempt' = attempt + 1
             /\ sleeps' = Append(sleeps, DELAY_BETWEEN_REQUESTS)
             /\ payload' = MapHistory(r.body, curr)
             /\ pc' = "b_day"
             /\ UNCHANGED <<n429, nHard>>
    /\ UNCHANGED <<orch, env, raised, hvars, svars, cfgvars, loopvars, wvars, clockvars>>

\* lines 71-103: one pass of the retry loop
FetchAttempt ==
    /\ orch = "backfill" /\ pc = "b_fetch"
    /\ attempt < MAX_RETRIES
    /\ attempt' = attempt + 1
    /\ requests' = requests + 1
    /\ \E r \in HistoryResponses :
        IF r.kind = "429"
        THEN /\ sleeps' = Append(sleeps, BackoffWait(attempt'))
             /\ n429' = n429 + 1
             /\ UNCHANGED <<nHard, payload, pc>>
        ELSE IF r.kind # "ok" \/ MappingRaises(r.body)
        THEN /\ sleeps' = Append(sleeps, BackoffWait(attempt'))
             /\ nHard' = nHard + 1
             /\ UNCHANGED <<n429, payload, pc>>
        ELSE /\ sleeps' = Append(sleeps, DELAY_BETWEEN_REQUESTS)
             /\ payload' = MapHistory(r.body, curr)
             /\ pc' = "b_day"
             /\ UNCHANGED <<n429, nHard>>
    /\ UNCHANGED <<orch, env, raised, hvars, svars, cfgvars, loopvars, wvars, clockvars>>

\* lines 71, 105-106: the attempts are used up
FetchExhausted ==
    /\ orch = "backfill" /\ pc = "b_fetch"
    /\ ~(attempt < MAX_RETRIES)
    /\ payload' = ExhaustedResult(curr)
    /\ pc' = "b_day"
    /\ UNCHANGED <<orch, env, raised, hvars, svars, cfgvars, loopvars, attempt, requests,
                   n429, nHard, sleeps, wvars, clockvars>>

\* lines 173-185: skip or build and write, count, advance the cursor
BackfillDay ==
    /\ orch = "backfill" /\ pc = "b_day"
    /\ IF payload.price_usd = None
       THEN /\ failed' = failed + 1 /\ succeeded' = succeeded
            /\ writeRaised' = FALSE
            /\ UNCHANGED <<wvars, clockvars>>
       ELSE \E c \in ClockReads(now, ticks) : \E ok \in BOOLEAN :
            LET row == BuildDataframeFromPayload(payload, curr, c[1]) IN
            /\ now' = c[1] /\ ticks' = c[2]
            /\ writerCalls' = writerCalls + 1
            /\ handed' = handed \cup
                  {[orch |-> "backfill", mode |-> BackfillWriteMode, logical |-> curr,
                    row |-> row]}
            /\ writeRaised' = ~ok
            /\ IF ok
               THEN /\ store' = ToParquet(store, <<row>>, BackfillWriteMode)
                    /\ succeeded' = succeeded + 1 /\ failed' = failed
               ELSE /\ store' = store
                    /\ failed' = failed + 1 /\ succeeded' = succeeded
    /\ curr' = NextDay(curr)
    /\ processed' = Append(processed, curr)
    /\ pc' = "b_loop"
    /\ UNCHANGED <<orch, env, raised, hvars, svars, cfgvars, start_date, end_date, fetchvars>>

\* --------------------------------------------------- interactive script
\* manual_backfill.py lines 20-26, run at module level
ManualResolveKey ==
    /\ orch = "manual" /\ pc = "m_key"
    /\ IF env.secret_name
       THEN \E o \in SecretOutcomes :
                /\ secretCalls' = secretCalls + 1
                /\ secretOutcome' = LookupResult(o)
                /\ api_key' = ManualSecretKey(o).key
                /\ raised' = ManualSecretKey(o).raised
                /\ pc' = IF ManualSecretKey(o).raised = "none" THEN "m_main" ELSE "crashed"
       ELSE /\ pc' = "m_main"
            /\ UNCHANGED <<svars, raised>>
    /\ UNCHANGED <<orch, env, hvars, cfgvars, loopvars, fetchvars, wvars, clockvars>>

\* manual_backfill.py line 85: the test reads the global `name`, which the
\* module never binds, so the script ends with a NameError before it asks for
\* a date; fetch_bitcoin_data and save_to_s3 are never called.
ManualMain ==
    /\ orch = "manual" /\ pc = "m_main"
    /\ raised' = "NameError"
    /\ pc' = "crashed"
    /\ UNCHANGED <<orch, env, hvars, svars, cfgvars, loopvars, fetchvars, wvars, clockvars>>

\* ------------------------------------------------------------------ Init
\* The clock at the start: the day before a leap day, a leap year's 1 March
\* and a new year's day.
HandlerToday == <<2024, 2, 28>>
BackfillTodays == {<<2024, 3, 1>>, <<2024, 1, 1>>}

BadDateString == <<"2", "0", "2", "4", "-", "1", "3", "-", "0", "1">>

\* START_DATE / END_DATE / DAYS settings around today t
BackfillSettings(t) ==
    {[START_DATE |-> Some(StrfTime(AddDays(t, -k))), END_DATE |-> None, DAYS |-> MaxDays] :
        k \in -1..(MaxDays - 1)}
    \cup {[START_DATE |-> Some(StrfTime(AddDays(t, -k))), END_DATE |-> Some(StrfTime(t)),
           DAYS |-> MaxDays] : k \in 0..(MaxDays - 1)}
    \cup {[START_DATE |-> None, END_DATE |-> Some(StrfTime(t)), DAYS |-> n] : n \in 0..MaxDays}
    \cup {[START_DATE |-> None, END_DATE |-> None, DAYS |-> n] : n \in 0..MaxDays}
    \cup {[START_DATE |-> Some(BadDateString), END_DATE |-> None, DAYS |-> MaxDays],
          [START_DATE |-> None, END_DATE |-> Some(BadDateString), DAYS |-> MaxDays]}

InitCommon ==
    /\ ticks = 0
    /\ api_key = None /\ secretCalls = 0 /\ secretOutcome = "none"
    /\ df = <<>> /\ status = 0 /\ prev = NoPrev /\ fetched = "none"
    /\ writerCalls = 0 /\ store = <<>> /\ handed = {}
    /\ raised = "none"
    /\ start_date = None /\ end_date = None /\ curr = None
    /\ succeeded = 0 /\ failed = 0 /\ processed = <<>> /\ writeRaised = FALSE
    /\ attempt = 0 /\ requests = 0 /\ n429 = 0 /\ nHard = 0 /\ sleeps = <<>>
    /\ payload = NoPayload

InitHandler ==
    /\ orch = "handler" /\ pc = "h_key"
    /\ now = HandlerToday
    /\ env \in [S3 : BOOLEAN, secret_name : BOOLEAN]
    /\ event \in Events
    /\ invocations = 1
    /\ START_DATE = None /\ END_DATE = None /\ DAYS = 0

InitBackfill ==
    /\ orch = "backfill" /\ pc = "b_key"
    /\ now \in BackfillTodays
    /\ env \in [S3 : {TRUE}, secret_name : BOOLEAN]
    /\ event = NoEvent
    /\ invocations = 0
    /\ \E c \in BackfillSettings(now) :
        START_DATE = c.START_DATE /\ END_DATE = c.END_DATE /\ DAYS = c.DAYS

InitManual ==
    /\ orch = "manual" /\ pc = "m_key"
    /\ now = HandlerToday
    /\ env \in [S3 : {TRUE}, secret_name : BOOLEAN]
    /\ event = NoEvent
    /\ invocations = 0
    /\ START_DATE = None /\ END_DATE = None /\ DAYS = 0

Init == InitCommon /\ (InitHandler \/ InitBackfill \/ InitManual)

Next ==
    \/ HandlerInvoke
    \/ HandlerResolveKey
    \/ HandlerFetch
    \/ HandlerBuild
    \/ HandlerWrite
    \/ BackfillResolveKey
    \/ ParseDateRange
    \/ LoopHead
    \/ FetchAttempt
    \/ FetchExhausted
    \/ BackfillDay
    \/ ManualResolveKey
    \/ ManualMain

Spec == Init /\ [][Next]_vars

\* ------------------------------------------------------------ properties
\* The price a row carries, under whichever column the orchestrator puts it.
RowPrice(r) == IF r.price_usd # None THEN r.price_usd ELSE r.current_price

\* date.toordinal(), to count days independently of the cursor's stepping
DaysBeforeYear(y) == 365 * (y - 1) + ((y - 1) \div 4) - ((y - 1) \div 100) + ((y - 1) \div 400)
RECURSIVE DaysBeforeMonth(_, _)
DaysBeforeMonth(y, m) == IF m = 1 THEN 0 ELSE DaysBeforeMonth(y, m - 1) + DaysInMonth(y, m - 1)
Ordinal(t) == DaysBeforeYear(t[1]) + DaysBeforeMonth(t[1], t[2]) + t[3]

\* the number of days of [a, b]
NumDays(a, b) == IF Ordinal(b) >= Ordinal(a) THEN Ordinal(b) - Ordinal(a) + 1 ELSE 0

\* the backoff sleeps of the first k failed attempts
Backoffs(k) == [i \in 1..k |-> RETRY_BACKOFF_BASE * i]

InLoop == orch = "backfill" /\ pc \in {"b_loop", "b_fetch", "b_day", "done"}
FetchReturned == orch = "backfill" /\ pc = "b_day"
\* every attempt of the current day failed
AllFailed == n429 + nHard = MAX_RETRIES /\ attempt = n429 + nHard
\* the last attempt of the current day succeeded
Succeeded == attempt = n429 + nHard + 1
AllAbsent(p) ==
    /\ p.price_usd = None /\ p.volume_usd = None
    /\ p.market_cap_usd = None /\ p.last_updated = None

MissingPrice == Some([price_usd |-> None])

\* C1: every lambda_handler invocation whose event carries historical_data
\* without price_usd returns status 400 and calls the writer zero times.
C1_MissingPriceRejected ==
    (orch = "handler" /\ pc = "done" /\ event.historical_data = MissingPrice)
        => (status = 400 /\ writerCalls = 0)

\* C2: no orchestrator hands the writer a row whose price is absent.
C2_NoAbsentPriceWritten ==
    \A h \in handed : RowPrice(h.row) # None

\* C3: main processes the days of [start, end] once each, in ascending order,
\* whatever each day's outcome: the finished days are always the first days
\* of the range, the cursor is the day after them, each finished day is
\* counted once as succeeded or failed, no exception ends the loop, the loop
\* can always take its next step, and it ends exactly when the whole range
\* is done.
C3_EveryDayOnce ==
    InLoop =>
        /\ \A i \in 1..Len(processed) :
              /\ ValidDate(processed[i])
              /\ Ordinal(processed[i]) = Ordinal(start_date) + i - 1
        /\ Len(processed) <= NumDays(start_date, end_date)
        /\ Ordinal(curr) = Ordinal(start_date) + Len(processed)
        /\ succeeded + failed = Len(processed)
        /\ raised = "none"
        /\ (pc = "done" => Len(processed) = NumDays(start_date, end_date))
        /\ (pc # "done" => ENABLED (LoopHead \/ FetchAttempt \/ FetchExhausted \/ BackfillDay))

C3_Witness ==
    /\ orch = "backfill" /\ pc = "done"
    /\ Len(processed) >= 2
    /\ processed[1][2] # processed[2][2]
    /\ succeeded >= 1 /\ failed >= 1

\* the state fetch_historical_day returns in when every attempt failed
C4_ExhaustedState ==
    /\ (orch = "backfill" /\ pc = "b_fetch") => requests <= MAX_RETRIES
    /\ (FetchReturned /\ AllFailed) =>
          /\ requests = MAX_RETRIES
          /\ raised = "none"
          /\ payload.date # None /\ StrpTime(payload.date[1]) = Some(curr)
          /\ AllAbsent(payload)

\* the step main takes from that state
C4_ExhaustedStep ==
    (FetchReturned /\ AllFailed) =>
        /\ failed' = failed + 1 /\ succeeded' = succeeded
        /\ writerCalls' = writerCalls /\ store' = store /\ handed' = handed
        /\ processed' = Append(processed, curr)
        /\ Ordinal(curr') = Ordinal(curr) + 1
        /\ pc' = "b_loop" /\ raised' = "none"

\* C4: when all MAX_RETRIES attempts for a day fail, fetch_historical_day has
\* made exactly MAX_RETRIES requests, has not raised, and returns that day's
\* date with every price field absent; main then counts the day as failed,
\* writes nothing and moves to the next day.
C4_ExhaustedDayFails == []C4_ExhaustedState /\ [][C4_ExhaustedStep]_vars

\* the day whose attempts were all used up has been counted and left behind
C4_Witness ==
    /\ orch = "backfill" /\ pc = "b_loop"
    /\ AllFailed /\ n429 >= 1 /\ nHard >= 1
    /\ Len(processed) >= 1 /\ failed >= 1 /\ writerCalls = 0

\* C5: k rate-limit responses followed by a success (k < MAX_RETRIES) give
\* the sleeps B*1, ..., B*k, then one sleep of the inter-request delay, and
\* then the fetched fields; a failed attempt is never followed by the
\* inter-request delay.
C5_SleepSchedule ==
    /\ (orch = "backfill" /\ pc = "b_fetch") =>
          sleeps = Backoffs(attempt) /\ payload = NoPayload
    /\ (FetchReturned /\ Succeeded) =>
          /\ n429 + nHard < MAX_RETRIES
          /\ sleeps = Backoffs(n429 + nHard) \o <<DELAY_BETWEEN_REQUESTS>>
          /\ payload.date # None
    /\ (FetchReturned /\ Succeeded /\ nHard = 0 /\ n429 = 2) => sleeps = <<5, 10, 3>>
    /\ (FetchReturned /\ ~Succeeded) => sleeps = Backoffs(MAX_RETRIES)

C5_Witness ==
    /\ FetchReturned /\ Succeeded
    /\ nHard = 0 /\ n429 = 2
    /\ sleeps = <<RETRY_BACKOFF_BASE, 2 * RETRY_BACKOFF_BASE, DELAY_BETWEEN_REQUESTS>>
    /\ payload.price_usd = Some(100)

\* C6: when the markets endpoint returns an empty array, lambda_handler
\* returns status 204, calls the writer zero times and reports no failure.
C6_EmptyIsNoData ==
    (orch = "handler" /\ fetched = "empty") =>
        /\ pc = "done" /\ status = 204
        /\ writerCalls = 0 /\ handed = {}
        /\ raised = "none"

C6_Witness ==
    /\ orch = "handler" /\ fetched = "empty" /\ pc = "done"
    /\ invocations = 2 /\ prev.status = 200

\* C7: in every orchestrator a failed secret lookup leaves the key absent and
\* never ends the run, and without a secret name no lookup is made.
C7_SecretFailureAbsorbed ==
    /\ raised # "secret"
    /\ secretOutcome = "failed" => api_key = None
    /\ ~env.secret_name => secretCalls = 0

\* what a successful write for an event date does to the store
C8_OverwriteStep ==
    (orch = "handler" /\ pc = "h_write" /\ status' = 200 /\ event.date # None) =>
        LET p == Fields(event.date[1]) IN
        /\ DOMAIN store' = DOMAIN store \cup {p}
        /\ Len(store'[p]) = 1
        /\ store'[p] = df
        /\ \A q \in DOMAIN store \ {p} : store'[q] = store[q]

\* C8: a successful lambda_handler write for an event date leaves that date's
\* partition holding exactly this run's one row, whatever the partition held
\* before (so a second run for the same date leaves what a single run
\* leaves), and leaves every other partition as it was.
C8_RerunIdempotent == [][C8_OverwriteStep]_vars

C8_Witness ==
    /\ orch = "handler" /\ pc = "done" /\ status = 200
    /\ event.date # None /\ prev.date = event.date /\ prev.status = 200
    /\ Len(store[Fields(event.date[1])]) = 1
    /\ Cardinality(DOMAIN store) = 1

C10_RateLimitNotCounted ==
    (FetchReturned /\ attempt = n429 + nHard) => nHard = MAX_RETRIES

\* every request uses up an attempt
C10_AttemptsCountAll ==
    (orch = "backfill" /\ pc \in {"b_fetch", "b_day"}) =>
        /\ attempt = requests /\ requests <= MAX_RETRIES
        /\ n429 + nHard \in {attempt, attempt - 1}
        /\ (pc = "b_day" /\ n429 = MAX_RETRIES) => AllAbsent(payload)

\* the step that receives a 429
C10_RateLimitStep ==
    (orch = "backfill" /\ pc = "b_fetch" /\ n429' = n429 + 1) =>
        /\ sleeps' = Append(sleeps, RETRY_BACKOFF_BASE * (n429 + nHard + 1))
        /\ pc' = "b_fetch"

\* C10 amended: a 429 is followed by a sleep of backoff_base * attempt and a
\* retry, and it uses up an attempt like any other failure: the attempt
\* number is the number of responses so far, and after MAX_RETRIES 429
\* responses no further request is made and the result is all absent.
C10_RateLimitCounted == []C10_AttemptsCountAll /\ [][C10_RateLimitStep]_vars

C10_Witness ==
    /\ FetchReturned /\ n429 = MAX_RETRIES
    /\ requests = MAX_RETRIES /\ AllAbsent(payload)

====
